---- MODULE Spec2Model ----
(***************************************************************************)
(* The quote aggregation endpoint of api/yfinance.py: one GET handler that *)
(* normalises a comma separated symbol list, asks the upstream provider    *)
(* for a live snapshot of each symbol, falls back to daily history when    *)
(* the snapshot has no price, and answers with a JSON array of records.    *)
(*                                                                         *)
(* Strings are sequences of code points.  A Python value is a record       *)
(* [k, n, d, s]: k is its kind ("none", "num", "nan", "inf", "ninf",       *)
(* "str"), n/d the exact value of a finite number (d >= 1, lowest terms),  *)
(* s the text of a string.  Finite arithmetic is exact; the values of the  *)
(* model are far from the range where a float rounds or overflows.         *)
(***************************************************************************)
EXTENDS Integers, Sequences, FiniteSets, TLC

VARIABLES
  pc,          \* position of do_GET
  raw,         \* the decoded first value of the "symbols" query parameter
  symbols,     \* do_GET's local `symbols`
  idx,         \* position of the for loop in `symbols` (1-based)
  close,       \* locals of the loop body
  prev_close,
  volume,
  market_cap,
  currency,
  exchange,
  payload,     \* do_GET's local `payload`
  response,    \* what the handler has sent: status and body
  calls,       \* upstream calls made so far, in order
  live,        \* per snapshot access: what the dict offered, what the step left
  hist,        \* per history request: what the returned series holds
  again        \* second normalisation (normalisation specification only)

vars == <<pc, raw, symbols, idx, close, prev_close, volume, market_cap,
          currency, exchange, payload, response, calls, live, hist, again>>

----------------------------------------------------------------------------
(* Bounds of the model *)

MaxLen == 5        \* longest raw string of the normalisation specification
MaxFastKeys == 2   \* most keys a snapshot of the detailed symbol carries
MaxBars == 2       \* most rows of a history frame of the detailed symbol
MaxOver == 2       \* how far a bulk request exceeds MAX_SYMBOLS

----------------------------------------------------------------------------
(* Python values *)

Val(kind, num, den, str) == [k |-> kind, n |-> num, d |-> den, s |-> str]
None == Val("none", 0, 1, "")
Num(i) == Val("num", i, 1, "")
NaN == Val("nan", 0, 1, "")
PInf == Val("inf", 0, 1, "")
NInf == Val("ninf", 0, 1, "")
Str(t) == Val("str", 0, 1, t)

IsNone(v) == v.k = "none"
IsFinite(v) == v.k = "num"

Abs(i) == IF i < 0 THEN -i ELSE i

RECURSIVE Gcd(_, _)
Gcd(x, y) == IF y = 0 THEN x ELSE Gcd(y, x % y)

\* the finite number p/q (q # 0) in lowest terms
Rat(p, q) ==
  LET g == Gcd(Abs(p), Abs(q))
      sgn == IF q < 0 THEN -1 ELSE 1
  IN Val("num", sgn * (p \div g), Abs(q) \div g, "")

Sign(v) ==
  CASE v.k = "num" -> (IF v.n > 0 THEN 1 ELSE IF v.n < 0 THEN -1 ELSE 0)
    [] v.k = "inf" -> 1
    [] v.k = "ninf" -> -1
    [] OTHER -> 0

\* Python truth value, as the `or` chains of do_GET use it
Truthy(v) ==
  CASE v.k = "none" -> FALSE
    [] v.k = "num" -> v.n # 0
    [] v.k = "str" -> v.s # ""
    [] OTHER -> TRUE

Or(x, y) == IF Truthy(x) THEN x ELSE y

\* IEEE float operations on two floats (never None, never a string)
FGreaterZero(v) == Sign(v) = 1

FSub(x, y) ==
  CASE x.k = "nan" \/ y.k = "nan" -> NaN
    [] x.k = "num" /\ y.k = "num" -> Rat(x.n * y.d - y.n * x.d, x.d * y.d)
    [] x.k = "num" -> (IF y.k = "inf" THEN NInf ELSE PInf)
    [] y.k = "num" -> x
    [] x.k = y.k -> NaN
    [] OTHER -> x

FMul(x, y) ==
  CASE x.k = "nan" \/ y.k = "nan" -> NaN
    [] x.k = "num" /\ y.k = "num" -> Rat(x.n * y.n, x.d * y.d)
    [] Sign(x) = 0 \/ Sign(y) = 0 -> NaN
    [] Sign(x) = Sign(y) -> PInf
    [] OTHER -> NInf

\* float division by a divisor that is not zero
FDiv(x, y) ==
  CASE x.k = "nan" \/ y.k = "nan" -> NaN
    [] x.k = "num" /\ y.k = "num" -> Rat(x.n * y.d, x.d * y.n)
    [] x.k = "num" -> Num(0)
    [] y.k = "num" -> (IF Sign(x) = Sign(y) THEN PInf ELSE NInf)
    [] OTHER -> NaN

----------------------------------------------------------------------------
(* as_float *)

as_float(value) ==
  CASE value.k = "none" -> None
    [] value.k = "str" -> None     \* float("n/a"), float("") raise
    [] value.k = "nan" -> None
    [] OTHER -> value

----------------------------------------------------------------------------
(* unique_symbols *)

MAX_SYMBOLS == 220
Comma == 44
Space == 32
Tab == 9

IsSpace(c) == c \in {Space, Tab}
Upper(c) == IF c >= 97 /\ c <= 122 THEN c - 32 ELSE c

StrUpper(s) == [i \in 1..Len(s) |-> Upper(s[i])]

RECURSIVE LStrip(_)
LStrip(s) == IF s # <<>> /\ IsSpace(Head(s)) THEN LStrip(Tail(s)) ELSE s

RECURSIVE RStrip(_)
RStrip(s) ==
  IF s # <<>> /\ IsSpace(s[Len(s)]) THEN RStrip(SubSeq(s, 1, Len(s) - 1)) ELSE s

Strip(s) == RStrip(LStrip(s))

\* s.split(","): the pieces between the commas, empty pieces included.
\* The scan is folded by halves, which keeps the nesting of the evaluation
\* logarithmic in the length; the pieces are those of the left to right scan.
RECURSIVE SplitRange(_, _, _)
SplitRange(s, lo, hi) ==
  IF lo > hi THEN << <<>> >>
  ELSE IF lo = hi
       THEN (IF s[lo] = Comma THEN << <<>>, <<>> >> ELSE << <<s[lo]>> >>)
       ELSE LET mid == (lo + hi) \div 2
                L == SplitRange(s, lo, mid)
                R == SplitRange(s, mid + 1, hi)
            IN SubSeq(L, 1, Len(L) - 1) \o <<L[Len(L)] \o R[1]>> \o Tail(R)

Split(s) == SplitRange(s, 1, Len(s))

RECURSIVE JoinRange(_, _, _, _)
JoinRange(list, sep, lo, hi) ==
  IF lo > hi THEN <<>>
  ELSE IF lo = hi THEN list[lo]
  ELSE LET mid == (lo + hi) \div 2
       IN JoinRange(list, sep, lo, mid) \o <<sep>> \o JoinRange(list, sep, mid + 1, hi)

Join(list, sep) == JoinRange(list, sep, 1, Len(list))

Contains(list, x) == \E i \in 1..Len(list) : list[i] = x

\* one turn of the loop of unique_symbols (lines 26-30); `seen` holds
\* exactly the elements of `out`
UniqueStep_NoSeen(token, out) ==
  LET symbol == StrUpper(Strip(token))
  IN IF symbol = <<>> THEN out ELSE Append(out, symbol)

UniqueStep_KeepEmpty(token, out) ==
  LET symbol == StrUpper(Strip(token))
  IN IF Contains(out, symbol) THEN out ELSE Append(out, symbol)

UniqueStep(token, out) ==
  LET symbol == StrUpper(Strip(token))
  IN IF symbol = <<>> \/ Contains(out, symbol) THEN out ELSE Append(out, symbol)

\* the loop over tokens[lo..hi], in order, starting from `out`; it is folded
\* by halves like the scan above, and the test on Len(left) makes the first
\* half finish before the second starts
RECURSIVE UniqueLoop(_, _, _, _)
UniqueLoop(tokens, lo, hi, out) ==
  IF lo > hi THEN out
  ELSE IF lo = hi THEN UniqueStep(tokens[lo], out)
  ELSE LET mid == (lo + hi) \div 2
           left == UniqueLoop(tokens, lo, mid, out)
       IN IF Len(left) >= 0 THEN UniqueLoop(tokens, mid + 1, hi, left) ELSE left

unique_symbols(r) == LET tokens == Split(r) IN UniqueLoop(tokens, 1, Len(tokens), <<>>)

----------------------------------------------------------------------------
(* parse_close_and_prev *)

\* A history answer: the call raises, returns None, or returns a frame of
\* `rows` rows whose Close and Volume columns, when present, hold one cell
\* per row (a number, an infinity, or NaN for a missing value).
Raises == [k |-> "raise", rows |-> 0, hasClose |-> FALSE, Close |-> <<>>,
           hasVolume |-> FALSE, Volume |-> <<>>]
NoFrame == [k |-> "none", rows |-> 0, hasClose |-> FALSE, Close |-> <<>>,
            hasVolume |-> FALSE, Volume |-> <<>>]
Frame(n, hc, c, hv, v) == [k |-> "frame", rows |-> n, hasClose |-> hc,
                           Close |-> c, hasVolume |-> hv, Volume |-> v]

\* Series.dropna(): the cells that are neither NaN nor None, in order
RECURSIVE dropna(_)
dropna(col) ==
  IF col = <<>> THEN <<>>
  ELSE IF Head(col).k \in {"nan", "none"} THEN dropna(Tail(col))
  ELSE <<Head(col)>> \o dropna(Tail(col))

parse_close_and_prev_FirstBars(h) ==
  IF h.k = "none" \/ h.rows = 0 THEN <<None, None, None>>
  ELSE LET closes == IF h.hasClose THEN dropna(h.Close) ELSE <<>>
           volumes == IF h.hasVolume THEN dropna(h.Volume) ELSE <<>>
       IN << IF Len(closes) >= 1 THEN as_float(closes[1]) ELSE None,
             IF Len(closes) >= 2 THEN as_float(closes[2]) ELSE None,
             IF Len(volumes) >= 1 THEN as_float(volumes[1]) ELSE None >>

parse_close_and_prev(h) ==
  IF h.k = "none" \/ h.rows = 0 THEN <<None, None, None>>
  ELSE LET closes == IF h.hasClose THEN dropna(h.Close) ELSE <<>>
           volumes == IF h.hasVolume THEN dropna(h.Volume) ELSE <<>>
       IN << IF Len(closes) >= 1 THEN as_float(closes[Len(closes)]) ELSE None,
             IF Len(closes) >= 2 THEN as_float(closes[Len(closes) - 1]) ELSE None,
             IF Len(volumes) >= 1 THEN as_float(volumes[Len(volumes)]) ELSE None >>

----------------------------------------------------------------------------
(* The upstream provider *)

FastKeys == {"lastPrice", "last_price", "regularMarketPrice", "previousClose",
             "previous_close", "lastVolume", "last_volume", "marketCap",
             "market_cap", "currency", "exchange"}
TextKeys == {"currency", "exchange"}

\* what the provider may put under a numeric key, and under a text key
RawNumbers == {Num(0), Num(-100), Num(100), NaN, PInf, Str("n/a")}
RawTexts == {Str("EUR")}

EmptyFast == [key \in FastKeys |-> None]
FastWith(S, g) == [key \in FastKeys |-> IF key \in S THEN g[key] ELSE None]

\* a snapshot answer: the accessor raises, or yields a dict (a key that is
\* missing and a key set to None read the same through dict.get)
FastAnswer(r, f) == [raises |-> r, info |-> f]

KeySets == {S \in SUBSET FastKeys : Cardinality(S) <= MaxFastKeys}

\* the values a dict with exactly the keys S may hold
Typed(S) == {g \in [S -> RawNumbers \cup RawTexts] :
               \A key \in S : (key \in TextKeys) = (g[key] \in RawTexts)}

CloseCells == {NaN, Num(98), Num(101)}
VolumeCells == {NaN, Num(1000), Num(1200)}

Columns(cells, n) == [1..n -> cells]

DetailHistories ==
  {Raises, NoFrame} \cup
  UNION {{Frame(n, TRUE, c, TRUE, v) : c \in Columns(CloseCells, n),
                                        v \in Columns(VolumeCells, n)}
         \cup {Frame(n, TRUE, c, FALSE, <<>>) : c \in Columns(CloseCells, n)}
         \cup {Frame(n, FALSE, <<>>, TRUE, v) : v \in Columns(VolumeCells, n)}
         \cup {Frame(n, FALSE, <<>>, FALSE, <<>>)} :
         n \in 0..MaxBars}

\* The symbol whose answers are enumerated in full.  Every other short
\* symbol gets the representative answers (the call raises, or has a price); the
\* symbols of a bulk request get one answer each, fixed by the code point.
DetailSymbol == <<65>>
\* the j-th of the caseless one-character symbols of a bulk request
BulkChar(j) == 19968 + j
IsBulk(symbol) == symbol # <<>> /\ symbol[1] >= BulkChar(0)

PlainFastInfos ==
  {FastAnswer(TRUE, EmptyFast),
   FastAnswer(FALSE, [EmptyFast EXCEPT !["regularMarketPrice"] = Num(50)])}
PlainHistories ==
  {Raises, Frame(1, TRUE, <<Num(40)>>, TRUE, <<Num(7)>>)}

\* the answers spelled out; the dicts of the detailed symbol are enumerated
\* by the snapshot step itself, key set by key set
FastInfos(symbol) ==
  IF symbol = DetailSymbol THEN {FastAnswer(TRUE, EmptyFast)}
  ELSE IF IsBulk(symbol)
  THEN {IF symbol[1] % 3 = 0
        THEN FastAnswer(FALSE, [EmptyFast EXCEPT !["lastPrice"] = Num(symbol[1] - BulkChar(0))])
        ELSE IF symbol[1] % 3 = 1 THEN FastAnswer(TRUE, EmptyFast)
        ELSE FastAnswer(FALSE, EmptyFast)}
  ELSE PlainFastInfos

Histories(symbol) ==
  IF symbol = DetailSymbol THEN DetailHistories
  ELSE IF IsBulk(symbol)
  THEN {IF symbol[1] % 2 = 0 THEN Frame(1, TRUE, <<Num(40)>>, TRUE, <<Num(7)>>)
        ELSE NoFrame}
  ELSE PlainHistories

----------------------------------------------------------------------------
(* do_GET *)

\* The value under the first key of `keys` that the dict holds (is not
\* None), whatever that value is; None when it holds none of them.
FirstPresent(fast, keys) ==
  IF \E i \in 1..Len(keys) : ~IsNone(fast[keys[i]])
  THEN fast[keys[CHOOSE i \in 1..Len(keys) :
                   /\ ~IsNone(fast[keys[i]])
                   /\ \A j \in 1..(i - 1) : IsNone(fast[keys[j]])]]
  ELSE None

PriceKeys == <<"lastPrice", "last_price", "regularMarketPrice">>
PrevKeys == <<"previousClose", "previous_close">>
VolumeKeys == <<"lastVolume", "last_volume">>
CapKeys == <<"marketCap", "market_cap">>

\* what the snapshot offers for each numeric field: the number under the
\* first key, by priority, that the dict holds
Offered(fast) ==
  [close |-> as_float(FirstPresent(fast, PriceKeys)),
   prev_close |-> as_float(FirstPresent(fast, PrevKeys)),
   volume |-> as_float(FirstPresent(fast, VolumeKeys)),
   market_cap |-> as_float(FirstPresent(fast, CapKeys))]

\* lines 73-78: the fields read from the snapshot dict
Extract(fast) ==
  [close |-> as_float(Or(Or(fast["lastPrice"], fast["last_price"]),
                         fast["regularMarketPrice"])),
   prev_close |-> as_float(Or(fast["previousClose"], fast["previous_close"])),
   volume |-> as_float(Or(fast["lastVolume"], fast["last_volume"])),
   market_cap |-> as_float(Or(fast["marketCap"], fast["market_cap"])),
   currency |-> fast["currency"],
   exchange |-> fast["exchange"]]

Truncate(list, n) == SubSeq(list, 1, IF Len(list) < n THEN Len(list) ELSE n)

\* lines 49-50
RequestSymbols_CapFirst(r) ==
  LET tokens == Truncate(Split(Strip(r)), MAX_SYMBOLS)
  IN UniqueLoop(tokens, 1, Len(tokens), <<>>)

RequestSymbols(r) == Truncate(unique_symbols(Strip(r)), MAX_SYMBOLS)

\* lines 96-98
ChangePct_NoGuard(price, prev) ==
  IF ~IsNone(prev) /\ Sign(prev) # 0
  THEN FMul(FDiv(FSub(price, prev), prev), Num(100))
  ELSE None

ChangePct(price, prev) ==
  IF ~IsNone(prev) /\ FGreaterZero(prev)
  THEN FMul(FDiv(FSub(price, prev), prev), Num(100))
  ELSE None

\* lines 100-115
QuoteRecord(symbol, c, p, v, m, cur, exch) ==
  [symbol |-> symbol, price |-> c, previousClose |-> p,
   changePct |-> ChangePct(c, p), marketCap |-> m, volume |-> v,
   averageVolume |-> None, high24h |-> None, low24h |-> None,
   currency |-> Or(cur, Str("USD")), exchange |-> exch, name |-> symbol]

\* json.dumps of one value: null, a number, a string, or (allow_nan is on
\* by default) one of the tokens NaN, Infinity, -Infinity
JsonValue(v) ==
  CASE v.k = "none" -> [t |-> "null", n |-> 0, d |-> 1, s |-> ""]
    [] v.k = "num" -> [t |-> "number", n |-> v.n, d |-> v.d, s |-> ""]
    [] v.k = "str" -> [t |-> "string", n |-> 0, d |-> 1, s |-> v.s]
    [] v.k = "nan" -> [t |-> "NaN", n |-> 0, d |-> 1, s |-> ""]
    [] v.k = "inf" -> [t |-> "Infinity", n |-> 0, d |-> 1, s |-> ""]
    [] OTHER -> [t |-> "-Infinity", n |-> 0, d |-> 1, s |-> ""]

NumericFields == {"price", "previousClose", "changePct", "marketCap", "volume"}
ValueFields == NumericFields \cup {"averageVolume", "high24h", "low24h",
                                   "currency", "exchange"}

JsonRecord(rec) ==
  [f \in ValueFields \cup {"symbol", "name"} |->
     IF f \in ValueFields THEN JsonValue(rec[f])
     ELSE [t |-> "string", n |-> 0, d |-> 1, s |-> ""]]

json_dumps(list) ==
  [i \in 1..Len(list) |-> [symbol |-> list[i].symbol, fields |-> JsonRecord(list[i])]]

NoResponse == [status |-> 0, error |-> "", body |-> <<>>]
Call(op, arg, ok) == [op |-> op, arg |-> arg, ok |-> ok]

\* lines 47-59: parse, normalise, validate
Start ==
  /\ pc = "start"
  /\ symbols' = RequestSymbols(raw)
  /\ IF symbols' = <<>>
     THEN /\ response' = [status |-> 400, error |-> "missing_symbols", body |-> <<>>]
          /\ pc' = "done"
     ELSE /\ response' = response
          /\ pc' = "tickers"
  /\ payload' = <<>>
  /\ UNCHANGED <<raw, idx, close, prev_close, volume, market_cap, currency,
                 exchange, calls, live, hist, again>>

\* line 60: yf.Tickers(" ".join(symbols)); it is outside every try
ConstructTickers ==
  /\ pc = "tickers"
  /\ \E ok \in BOOLEAN :
       /\ calls' = Append(calls, Call("Tickers", Join(symbols, Space), ok))
       /\ pc' = IF ok THEN "lookup" ELSE "crashed"
  /\ idx' = 1
  /\ UNCHANGED <<raw, symbols, close, prev_close, volume, market_cap, currency,
                 exchange, payload, response, live, hist, again>>

\* lines 63-65: the handle of the batch, or a fresh yf.Ticker(symbol); the
\* constructor is outside every try
LookupTicker ==
  /\ pc = "lookup"
  /\ \E ok \in BOOLEAN : pc' = IF ok THEN "snapshot" ELSE "crashed"
  /\ UNCHANGED <<raw, symbols, idx, close, prev_close, volume, market_cap,
                 currency, exchange, payload, response, calls, live, hist, again>>

SnapshotOf_AlwaysHistory(ans) ==
  LET fast == IF ans.raises THEN EmptyFast ELSE ans.info
      got == Extract(fast)
  IN /\ close' = got.close
     /\ prev_close' = got.prev_close
     /\ volume' = got.volume
     /\ market_cap' = got.market_cap
     /\ currency' = got.currency
     /\ exchange' = got.exchange
     /\ calls' = Append(calls, Call("fast_info", symbols[idx], ~ans.raises))
     /\ live' = Append(live, [close |-> got.close, prev_close |-> got.prev_close,
                              volume |-> got.volume, market_cap |-> got.market_cap,
                              offered |-> Offered(fast)])
     /\ pc' = "history"

\* lines 67-78, for one answer of the accessor
SnapshotOf(ans) ==
  LET fast == IF ans.raises THEN EmptyFast ELSE ans.info
      got == Extract(fast)
  IN /\ close' = got.close
     /\ prev_close' = got.prev_close
     /\ volume' = got.volume
     /\ market_cap' = got.market_cap
     /\ currency' = got.currency
     /\ exchange' = got.exchange
     /\ calls' = Append(calls, Call("fast_info", symbols[idx], ~ans.raises))
     /\ live' = Append(live, [close |-> got.close, prev_close |-> got.prev_close,
                              volume |-> got.volume, market_cap |-> got.market_cap,
                              offered |-> Offered(fast)])
     /\ pc' = IF IsNone(got.close) THEN "history" ELSE "emit"

Snapshot ==
  /\ pc = "snapshot"
  /\ \/ \E ans \in FastInfos(symbols[idx]) : SnapshotOf(ans)
     \/ /\ symbols[idx] = DetailSymbol
        /\ \E S \in KeySets : \E g \in Typed(S) :
             SnapshotOf(FastAnswer(FALSE, FastWith(S, g)))
  /\ UNCHANGED <<raw, symbols, idx, payload, response, hist, again>>

\* What a returned series holds, read off the frame cell by cell: the last
\* and the last but one cell of Close that is not missing, and the last cell
\* of Volume that is not missing (None where there is none).
Missing(cell) == cell.k \in {"nan", "none"}
Present(col) == {i \in 1..Len(col) : ~Missing(col[i])}
LastPresent(col, skip) ==
  LET P == Present(col)
  IN IF Cardinality(P) <= skip THEN None
     ELSE col[CHOOSE i \in P : Cardinality({j \in P : j > i}) = skip]
Held(h) ==
  [close |-> IF h.k = "frame" /\ h.hasClose THEN LastPresent(h.Close, 0) ELSE None,
   prev |-> IF h.k = "frame" /\ h.hasClose THEN LastPresent(h.Close, 1) ELSE None,
   volume |-> IF h.k = "frame" /\ h.hasVolume THEN LastPresent(h.Volume, 0) ELSE None]

\* lines 80-91; the local `history` is read by parse_close_and_prev alone and
\* is not kept
History ==
  /\ pc = "history"
  /\ \E h \in Histories(symbols[idx]) :
       /\ calls' = Append(calls, Call("history", symbols[idx], h.k # "raise"))
       /\ hist' = Append(hist, [symbol |-> symbols[idx], ok |-> h.k # "raise",
                                held |-> Held(h)])
       /\ IF h.k = "raise"
          THEN UNCHANGED <<close, prev_close, volume>>
          ELSE LET parsed == parse_close_and_prev(h)
               IN /\ close' = IF IsNone(close) THEN parsed[1] ELSE close
                  /\ prev_close' = IF IsNone(prev_close) THEN parsed[2] ELSE prev_close
                  /\ volume' = IF IsNone(volume) THEN parsed[3] ELSE volume
  /\ pc' = "emit"
  /\ UNCHANGED <<raw, symbols, idx, market_cap, currency, exchange, payload,
                 response, live, again>>

Emit_NoSkip ==
  /\ pc = "emit"
  /\ payload' = Append(payload, QuoteRecord(symbols[idx], close, prev_close,
                                            volume, market_cap, currency, exchange))
  /\ idx' = idx + 1
  /\ pc' = IF idx < Len(symbols) THEN "lookup" ELSE "respond"
  /\ UNCHANGED <<raw, symbols, close, prev_close, volume, market_cap, currency,
                 exchange, response, calls, live, hist, again>>

\* lines 93-115, and the step of the for loop
Emit ==
  /\ pc = "emit"
  /\ payload' = IF IsNone(close) THEN payload
                ELSE Append(payload, QuoteRecord(symbols[idx], close, prev_close,
                                                 volume, market_cap, currency, exchange))
  /\ idx' = idx + 1
  /\ pc' = IF idx < Len(symbols) THEN "lookup" ELSE "respond"
  /\ UNCHANGED <<raw, symbols, close, prev_close, volume, market_cap, currency,
                 exchange, response, calls, live, hist, again>>

\* lines 117-121
Respond ==
  /\ pc = "respond"
  /\ response' = [status |-> 200, error |-> "", body |-> json_dumps(payload)]
  /\ pc' = "done"
  /\ UNCHANGED <<raw, symbols, idx, close, prev_close, volume, market_cap,
                 currency, exchange, payload, calls, live, hist, again>>

\* The requests of the model: the short ones spelled out, and bulk requests
\* of one-character symbols around the cap, whose second token repeats the
\* first.
SmallRequests ==
  { <<>>, <<Space, Space>>, <<Comma>>, <<Space, Comma, Tab, Comma>>,
    <<97>>, <<Space, 98, Space>>,
    <<97, Comma, 98>>, <<98, Comma, 97>>,
    <<98, Comma, Space, 66, Comma, 99>>,
    <<99, Comma, Comma, 98, Comma, 99>> }

BulkToken(j) == BulkChar(IF j = 1 THEN 1 ELSE j - 1)
BulkRaw(n) ==
  [i \in 1..(2 * n + 1) |-> IF i % 2 = 0 THEN Comma ELSE BulkToken((i + 1) \div 2)]
BulkSizes == {MAX_SYMBOLS - 1, MAX_SYMBOLS, MAX_SYMBOLS + MaxOver}
BulkRequests == {BulkRaw(n) : n \in BulkSizes}

Init ==
  /\ pc = "start"
  /\ raw \in SmallRequests \cup BulkRequests
  /\ symbols = <<>>
  /\ idx = 0
  /\ close = None
  /\ prev_close = None
  /\ volume = None
  /\ market_cap = None
  /\ currency = None
  /\ exchange = None
  /\ payload = <<>>
  /\ response = NoResponse
  /\ calls = <<>>
  /\ live = <<>>
  /\ hist = <<>>
  /\ again = <<>>

Next ==
  \/ Start
  \/ ConstructTickers
  \/ LookupTicker
  \/ Snapshot
  \/ History
  \/ Emit
  \/ Respond

Spec == Init /\ [][Next]_vars

----------------------------------------------------------------------------
(* unique_symbols on every short string *)

NormAlphabet == {97, 65, 98, Space, Comma}
NormInputs == UNION {[1..n -> NormAlphabet] : n \in 0..MaxLen}

InitNorm ==
  /\ pc = "norm"
  /\ raw \in NormInputs
  /\ symbols = <<>>
  /\ idx = 0
  /\ close = None
  /\ prev_close = None
  /\ volume = None
  /\ market_cap = None
  /\ currency = None
  /\ exchange = None
  /\ payload = <<>>
  /\ response = NoResponse
  /\ calls = <<>>
  /\ live = <<>>
  /\ hist = <<>>
  /\ again = <<>>

Normalize ==
  /\ pc = "norm"
  /\ symbols' = unique_symbols(raw)
  /\ pc' = "normed"
  /\ UNCHANGED <<raw, idx, close, prev_close, volume, market_cap, currency,
                 exchange, payload, response, calls, live, hist, again>>

Renormalize ==
  /\ pc = "normed"
  /\ again' = unique_symbols(Join(symbols, Comma))
  /\ pc' = "renormed"
  /\ UNCHANGED <<raw, symbols, idx, close, prev_close, volume, market_cap,
                 currency, exchange, payload, response, calls, live, hist>>

NextNorm == Normalize \/ Renormalize

SpecNorm == InitNorm /\ [][NextNorm]_vars

----------------------------------------------------------------------------
(* Properties *)

Finished == pc \in {"done", "crashed"}
Last(list) == list[Len(list)]
Min(x, y) == IF x < y THEN x ELSE y

\* the raw value holds nothing but commas and whitespace
NoSymbolChar(r) == \A i \in 1..Len(r) : r[i] = Comma \/ IsSpace(r[i])

\* C1: the answer is 400 {"error": "missing_symbols"} exactly when the raw
\* value yields no symbol, that is when it holds only commas and whitespace;
\* then no upstream call is ever made, and the handler ends with the 400.
\* A request that yields a symbol is never answered 400.
C1_MissingSymbols ==
  /\ response.status = 400 =>
       /\ NoSymbolChar(raw)
       /\ response.error = "missing_symbols"
       /\ response.body = <<>>
  /\ NoSymbolChar(raw) =>
       /\ calls = <<>>
       /\ pc # "start" => (pc = "done" /\ response.status = 400)
  /\ ~NoSymbolChar(raw) => response.status # 400

C1_Witness ==
  /\ pc = "done"
  /\ response.status = 400
  /\ Len(raw) = 4
  /\ calls = <<>>

\* the symbol at position i has a price after the snapshot and the fallback
Resolved(i) ==
  \/ ~IsNone(live[i].close)
  \/ \E j \in 1..Len(hist) :
       hist[j].symbol = symbols[i] /\ hist[j].ok /\ ~IsNone(hist[j].held.close)

\* C2: whatever upstream call fails, a request with a symbol ends with
\* status 200 and a JSON array, and in it every symbol that has a price of
\* its own has its record.
C2_AlwaysAnswers200 ==
  /\ (Finished /\ symbols # <<>>) => response.status = 200
  /\ response.status = 200 =>
       \A i \in 1..Len(symbols) :
         Resolved(i) => \E k \in 1..Len(response.body) :
                          response.body[k].symbol = symbols[i]

\* C3: each numeric field the snapshot step leaves is the number under the
\* first key, in priority order, that the dict holds, a 0 included.
C3_FirstPresentKey ==
  \A i \in 1..Len(live) :
    /\ live[i].close = live[i].offered.close
    /\ live[i].prev_close = live[i].offered.prev_close
    /\ live[i].volume = live[i].offered.volume
    /\ live[i].market_cap = live[i].offered.market_cap

\* the symbol of the latest history request has just had its turn of the loop
JustFellBack ==
  /\ hist # <<>>
  /\ live # <<>>
  /\ symbols[Len(live)] = Last(hist).symbol
  /\ idx > Len(live)

\* C4: when the snapshot step left no price and the history request returned
\* a series with a close, the record of the symbol has the most recent
\* non-missing Close as its price; its previousClose and volume are the ones
\* the snapshot step left, and where it left none, the second most recent
\* non-missing Close and the most recent non-missing Volume (absent when the
\* series has none).
C4_HistoricalFallback ==
  (JustFellBack /\ Last(hist).ok /\ ~IsNone(Last(hist).held.close)) =>
    /\ payload # <<>>
    /\ LET r == Last(payload)
           h == Last(hist).held
           l == Last(live)
       IN /\ r.symbol = Last(hist).symbol
          /\ IsNone(l.close)
          /\ r.price = h.close
          /\ r.previousClose = IF IsNone(l.prev_close) THEN h.prev ELSE l.prev_close
          /\ r.volume = IF IsNone(l.volume) THEN h.volume ELSE l.volume

C4_Witness ==
  /\ JustFellBack
  /\ payload # <<>>
  /\ Last(live).prev_close = None
  /\ Last(live).volume = None
  /\ Last(payload).price = Num(101)
  /\ Last(payload).previousClose = Num(98)
  /\ Last(payload).volume = Num(1200)

\* C5: in a 200 response the symbols of the array are the symbols of the
\* normalised list that have a price, in the order of the list, each once.
C5_OrderedResolvedSymbols ==
  response.status = 200 =>
    LET B == response.body
        Kept == {i \in 1..Len(symbols) : Resolved(i)}
        Pos(k) == CHOOSE i \in 1..Len(symbols) : symbols[i] = B[k].symbol
    IN /\ \A k \in 1..Len(B) :
            /\ \E i \in 1..Len(symbols) : symbols[i] = B[k].symbol
            /\ Pos(k) \in Kept
       /\ \A k \in 1..(Len(B) - 1) : Pos(k) < Pos(k + 1)
       /\ Len(B) = Cardinality(Kept)

C5_Witness ==
  /\ response.status = 200
  /\ Len(symbols) = 2
  /\ Len(response.body) = 1
  /\ response.body[1].symbol = symbols[2]

\* C6: a record has a changePct exactly when its previousClose is present
\* and greater than 0, and then changePct * previousClose equals
\* (price - previousClose) * 100 for the record's own price and
\* previousClose (a value that is not finite gives one that is not finite).
C6_ChangePct ==
  \A k \in 1..Len(payload) :
    LET r == payload[k]
        p == r.price
        q == r.previousClose
        c == r.changePct
    IN /\ ~IsNone(c) <=> (~IsNone(q) /\ Sign(q) = 1)
       /\ ~IsNone(c) =>
            IF IsFinite(p) /\ IsFinite(q)
            THEN /\ IsFinite(c)
                 /\ c.n * q.n * p.d = 100 * (p.n * q.d - q.n * p.d) * c.d
            ELSE ~IsFinite(c)

C6_Witness ==
  \E k \in 1..Len(payload) :
    /\ payload[k].price = Num(101)
    /\ payload[k].previousClose = Num(98)
    /\ payload[k].changePct = Rat(150, 49)

\* C7: every numeric field of every record of the response body is a finite
\* number or null.
C7_FiniteOrAbsent ==
  response.status = 200 =>
    \A k \in 1..Len(response.body) : \A f \in NumericFields :
      response.body[k].fields[f].t \in {"null", "number"}

\* r[i..j] is one of the pieces between the commas of r
IsPiece(r, i, j) ==
  /\ i = 1 \/ r[i - 1] = Comma
  /\ j = Len(r) \/ r[j + 1] = Comma
  /\ \A m \in i..j : r[m] # Comma

\* where the first piece of r that normalises to e starts
Starts(r, e) ==
  {i \in 1..(Len(r) + 1) :
     \E j \in (i - 1)..Len(r) : IsPiece(r, i, j) /\ StrUpper(Strip(SubSeq(r, i, j))) = e}
FirstStart(r, e) == CHOOSE i \in Starts(r, e) : \A m \in Starts(r, e) : i <= m

\* C8: every element of unique_symbols(raw) is a piece of raw, trimmed and
\* in upper case, and not empty; no element occurs twice; the elements are
\* in the order of their first pieces; and normalising the comma-joined
\* result gives the same list.
C8_UniqueSymbols ==
  /\ pc \in {"normed", "renormed"} =>
       /\ \A k \in 1..Len(symbols) :
            LET e == symbols[k]
            IN /\ e # <<>>
               /\ ~IsSpace(e[1])
               /\ ~IsSpace(e[Len(e)])
               /\ \A m \in 1..Len(e) : Upper(e[m]) = e[m] /\ e[m] # Comma
               /\ Starts(raw, e) # {}
       /\ \A k \in 1..Len(symbols) : \A m \in (k + 1)..Len(symbols) :
            /\ symbols[k] # symbols[m]
            /\ FirstStart(raw, symbols[k]) < FirstStart(raw, symbols[m])
  /\ pc = "renormed" => again = symbols

C8_Witness ==
  /\ pc = "renormed"
  /\ raw = <<97, Comma, 98, Comma, 65>>
  /\ symbols = << <<65>>, <<66>> >>
  /\ again = symbols

\* the distinct symbols the raw value names
Named(r) ==
  LET tokens == Split(r)
  IN {StrUpper(Strip(tokens[i])) : i \in 1..Len(tokens)} \ {<<>>}

\* C9: the list do_GET works on is the first min(n, MAX_SYMBOLS) entries of
\* the deduplicated list of the n distinct symbols named; at most
\* MAX_SYMBOLS snapshots and histories are requested and records emitted;
\* a request that names a symbol is never answered 400.
C9_SymbolCap ==
  /\ Len(symbols) <= MAX_SYMBOLS
  /\ Len(live) <= MAX_SYMBOLS
  /\ Len(hist) <= MAX_SYMBOLS
  /\ Len(payload) <= MAX_SYMBOLS
  /\ pc \in {"tickers", "done"} =>
       /\ Len(symbols) = Min(Cardinality(Named(raw)), MAX_SYMBOLS)
       /\ symbols = SubSeq(unique_symbols(raw), 1, Len(symbols))
       /\ Named(raw) # {} => response.status # 400

C9_Witness ==
  /\ pc = "done"
  /\ response.status = 200
  /\ Len(symbols) = MAX_SYMBOLS
  /\ Len(live) = MAX_SYMBOLS
  /\ symbols[MAX_SYMBOLS] = <<BulkToken(MAX_SYMBOLS + 1)>>
  /\ Cardinality(Named(raw)) > MAX_SYMBOLS

\* position in `symbols` of the latest snapshot access (0 before the first);
\* a snapshot access is the latest call or the one before a history request
LatestSnapshot ==
  LET n == Len(calls)
      at == IF n >= 1 /\ calls[n].op = "fast_info" THEN n
            ELSE IF n >= 2 /\ calls[n - 1].op = "fast_info" THEN n - 1
            ELSE 0
  IN IF at = 0 THEN 0
     ELSE CHOOSE i \in 1..Len(symbols) : symbols[i] = calls[at].arg

\* what a step may add to the upstream calls
CallStep ==
  \/ calls' = calls
  \/ /\ Len(calls') = Len(calls) + 1
     /\ SubSeq(calls', 1, Len(calls)) = calls
     /\ LET c == Last(calls')
        IN CASE c.op = "Tickers" -> calls = <<>>
             [] c.op = "fast_info" ->
                  /\ calls # <<>>
                  /\ LatestSnapshot < Len(symbols)
                  /\ c.arg = symbols[LatestSnapshot + 1]
             [] c.op = "history" ->
                  /\ Last(calls).op = "fast_info"
                  /\ Last(calls).arg = c.arg
                  /\ IsNone(close)
             [] OTHER -> FALSE

\* C10: the snapshots are accessed one symbol after the other in the order
\* of the list, each symbol once; a history request comes right after the
\* snapshot access of its symbol, and only when that left no price; no call
\* is made a second time.
C10_OnePassInOrder == [][CallStep]_vars

C10_Witness ==
  /\ Len(calls) = 4
  /\ calls[2].op = "fast_info"
  /\ ~calls[2].ok
  /\ calls[3].op = "history"
  /\ ~calls[3].ok
  /\ calls[4].op = "fast_info"
  /\ calls[4].arg = symbols[2]

====
